---- MODULE Spec2Model ----
(***************************************************************************)
(* helix-core/src/chars.rs: categorize_char and the predicates it is built *)
(* from.  A scalar value is modelled by its code point (an integer).  The  *)
(* harness draws an input ch and a line-ending policy, then calls one of   *)
(* the public functions on it and records what the call returned.          *)
(***************************************************************************)
EXTENDS Integers, Sequences, FiniteSets

VARIABLES
    ch,             \* the scalar value handed to the call
    unicode_lines,  \* whether the crate is built with feature "unicode-lines"
    called,         \* which function has been called on ch ("none" before)
    category,       \* what categorize_char returned ("none" before the call)
    narrow          \* what char_is_whitespace returned (FALSE before the call)

vars == <<ch, unicode_lines, called, category, narrow>>

\* How far around every table boundary the inputs are drawn.
Spread == 1

\* enum CharCategory
CharCategory ==
    {"Whitespace", "Eol", "Word", "Punctuation", "Unknown",
     "Hiragana", "Katakana", "Kanji"}

(***************************************************************************)
(* Unicode data the code reads through std and unicode_general_category.   *)
(***************************************************************************)

\* the Unicode White_Space property, which char::is_whitespace tests (Unicode 14.0), as sorted inclusive ranges.
White_SpaceRanges ==
    << <<\H0009, \H000D>>, <<\H0020, \H0020>>, <<\H0085, \H0085>>, <<\H00A0, \H00A0>>, <<\H1680, \H1680>>, <<\H2000, \H200A>>,
       <<\H2028, \H2029>>, <<\H202F, \H202F>>, <<\H205F, \H205F>>, <<\H3000, \H3000>> >>

\* the Unicode Alphabetic property, which char::is_alphabetic tests (Unicode 14.0), as sorted inclusive ranges.
AlphabeticRanges ==
    << <<\H0041, \H005A>>, <<\H0061, \H007A>>, <<\H00AA, \H00AA>>, <<\H00B5, \H00B5>>, <<\H00BA, \H00BA>>, <<\H00C0, \H00D6>>,
       <<\H00D8, \H00F6>>, <<\H00F8, \H02C1>>, <<\H02C6, \H02D1>>, <<\H02E0, \H02E4>>, <<\H02EC, \H02EC>>, <<\H02EE, \H02EE>>,
       <<\H0345, \H0345>>, <<\H0370, \H0374>>, <<\H0376, \H0377>>, <<\H037A, \H037D>>, <<\H037F, \H037F>>, <<\H0386, \H0386>>,
       <<\H0388, \H038A>>, <<\H038C, \H038C>>, <<\H038E, \H03A1>>, <<\H03A3, \H03F5>>, <<\H03F7, \H0481>>, <<\H048A, \H052F>>,
       <<\H0531, \H0556>>, <<\H0559, \H0559>>, <<\H0560, \H0588>>, <<\H05B0, \H05BD>>, <<\H05BF, \H05BF>>, <<\H05C1, \H05C2>>,
       <<\H05C4, \H05C5>>, <<\H05C7, \H05C7>>, <<\H05D0, \H05EA>>, <<\H05EF, \H05F2>>, <<\H0610, \H061A>>, <<\H0620, \H0657>>,
       <<\H0659, \H065F>>, <<\H066E, \H06D3>>, <<\H06D5, \H06DC>>, <<\H06E1, \H06E8>>, <<\H06ED, \H06EF>>, <<\H06FA, \H06FC>>,
       <<\H06FF, \H06FF>>, <<\H0710, \H073F>>, <<\H074D, \H07B1>>, <<\H07CA, \H07EA>>, <<\H07F4, \H07F5>>, <<\H07FA, \H07FA>>,
       <<\H0800, \H0817>>, <<\H081A, \H082C>>, <<\H0840, \H0858>>, <<\H0860, \H086A>>, <<\H0870, \H0887>>, <<\H0889, \H088E>>,
       <<\H08A0, \H08C9>>, <<\H08D4, \H08DF>>, <<\H08E3, \H08E9>>, <<\H08F0, \H093B>>, <<\H093D, \H094C>>, <<\H094E, \H0950>>,
       <<\H0955, \H0963>>, <<\H0971, \H0983>>, <<\H0985, \H098C>>, <<\H098F, \H0990>>, <<\H0993, \H09A8>>, <<\H09AA, \H09B0>>,
       <<\H09B2, \H09B2>>, <<\H09B6, \H09B9>>, <<\H09BD, \H09C4>>, <<\H09C7, \H09C8>>, <<\H09CB, \H09CC>>, <<\H09CE, \H09CE>>,
       <<\H09D7, \H09D7>>, <<\H09DC, \H09DD>>, <<\H09DF, \H09E3>>, <<\H09F0, \H09F1>>, <<\H09FC, \H09FC>>, <<\H0A01, \H0A03>>,
       <<\H0A05, \H0A0A>>, <<\H0A0F, \H0A10>>, <<\H0A13, \H0A28>>, <<\H0A2A, \H0A30>>, <<\H0A32, \H0A33>>, <<\H0A35, \H0A36>>,
       <<\H0A38, \H0A39>>, <<\H0A3E, \H0A42>>, <<\H0A47, \H0A48>>, <<\H0A4B, \H0A4C>>, <<\H0A51, \H0A51>>, <<\H0A59, \H0A5C>>,
       <<\H0A5E, \H0A5E>>, <<\H0A70, \H0A75>>, <<\H0A81, \H0A83>>, <<\H0A85, \H0A8D>>, <<\H0A8F, \H0A91>>, <<\H0A93, \H0AA8>>,
       <<\H0AAA, \H0AB0>>, <<\H0AB2, \H0AB3>>, <<\H0AB5, \H0AB9>>, <<\H0ABD, \H0AC5>>, <<\H0AC7, \H0AC9>>, <<\H0ACB, \H0ACC>>,
       <<\H0AD0, \H0AD0>>, <<\H0AE0, \H0AE3>>, <<\H0AF9, \H0AFC>>, <<\H0B01, \H0B03>>, <<\H0B05, \H0B0C>>, <<\H0B0F, \H0B10>>,
       <<\H0B13, \H0B28>>, <<\H0B2A, \H0B30>>, <<\H0B32, \H0B33>>, <<\H0B35, \H0B39>>, <<\H0B3D, \H0B44>>, <<\H0B47, \H0B48>>,
       <<\H0B4B, \H0B4C>>, <<\H0B56, \H0B57>>, <<\H0B5C, \H0B5D>>, <<\H0B5F, \H0B63>>, <<\H0B71, \H0B71>>, <<\H0B82, \H0B83>>,
       <<\H0B85, \H0B8A>>, <<\H0B8E, \H0B90>>, <<\H0B92, \H0B95>>, <<\H0B99, \H0B9A>>, <<\H0B9C, \H0B9C>>, <<\H0B9E, \H0B9F>>,
       <<\H0BA3, \H0BA4>>, <<\H0BA8, \H0BAA>>, <<\H0BAE, \H0BB9>>, <<\H0BBE, \H0BC2>>, <<\H0BC6, \H0BC8>>, <<\H0BCA, \H0BCC>>,
       <<\H0BD0, \H0BD0>>, <<\H0BD7, \H0BD7>>, <<\H0C00, \H0C03>>, <<\H0C05, \H0C0C>>, <<\H0C0E, \H0C10>>, <<\H0C12, \H0C28>>,
       <<\H0C2A, \H0C39>>, <<\H0C3D, \H0C44>>, <<\H0C46, \H0C48>>, <<\H0C4A, \H0C4C>>, <<\H0C55, \H0C56>>, <<\H0C58, \H0C5A>>,
       <<\H0C5D, \H0C5D>>, <<\H0C60, \H0C63>>, <<\H0C80, \H0C83>>, <<\H0C85, \H0C8C>>, <<\H0C8E, \H0C90>>, <<\H0C92, \H0CA8>>,
       <<\H0CAA, \H0CB3>>, <<\H0CB5, \H0CB9>>, <<\H0CBD, \H0CC4>>, <<\H0CC6, \H0CC8>>, <<\H0CCA, \H0CCC>>, <<\H0CD5, \H0CD6>>,
       <<\H0CDD, \H0CDE>>, <<\H0CE0, \H0CE3>>, <<\H0CF1, \H0CF2>>, <<\H0D00, \H0D0C>>, <<\H0D0E, \H0D10>>, <<\H0D12, \H0D3A>>,
       <<\H0D3D, \H0D44>>, <<\H0D46, \H0D48>>, <<\H0D4A, \H0D4C>>, <<\H0D4E, \H0D4E>>, <<\H0D54, \H0D57>>, <<\H0D5F, \H0D63>>,
       <<\H0D7A, \H0D7F>>, <<\H0D81, \H0D83>>, <<\H0D85, \H0D96>>, <<\H0D9A, \H0DB1>>, <<\H0DB3, \H0DBB>>, <<\H0DBD, \H0DBD>>,
       <<\H0DC0, \H0DC6>>, <<\H0DCF, \H0DD4>>, <<\H0DD6, \H0DD6>>, <<\H0DD8, \H0DDF>>, <<\H0DF2, \H0DF3>>, <<\H0E01, \H0E3A>>,
       <<\H0E40, \H0E46>>, <<\H0E4D, \H0E4D>>, <<\H0E81, \H0E82>>, <<\H0E84, \H0E84>>, <<\H0E86, \H0E8A>>, <<\H0E8C, \H0EA3>>,
       <<\H0EA5, \H0EA5>>, <<\H0EA7, \H0EB9>>, <<\H0EBB, \H0EBD>>, <<\H0EC0, \H0EC4>>, <<\H0EC6, \H0EC6>>, <<\H0ECD, \H0ECD>>,
       <<\H0EDC, \H0EDF>>, <<\H0F00, \H0F00>>, <<\H0F40, \H0F47>>, <<\H0F49, \H0F6C>>, <<\H0F71, \H0F81>>, <<\H0F88, \H0F97>>,
       <<\H0F99, \H0FBC>>, <<\H1000, \H1036>>, <<\H1038, \H1038>>, <<\H103B, \H103F>>, <<\H1050, \H108F>>, <<\H109A, \H109D>>,
       <<\H10A0, \H10C5>>, <<\H10C7, \H10C7>>, <<\H10CD, \H10CD>>, <<\H10D0, \H10FA>>, <<\H10FC, \H1248>>, <<\H124A, \H124D>>,
       <<\H1250, \H1256>>, <<\H1258, \H1258>>, <<\H125A, \H125D>>, <<\H1260, \H1288>>, <<\H128A, \H128D>>, <<\H1290, \H12B0>>,
       <<\H12B2, \H12B5>>, <<\H12B8, \H12BE>>, <<\H12C0, \H12C0>>, <<\H12C2, \H12C5>>, <<\H12C8, \H12D6>>, <<\H12D8, \H1310>>,
       <<\H1312, \H1315>>, <<\H1318, \H135A>>, <<\H1380, \H138F>>, <<\H13A0, \H13F5>>, <<\H13F8, \H13FD>>, <<\H1401, \H166C>>,
       <<\H166F, \H167F>>, <<\H1681, \H169A>>, <<\H16A0, \H16EA>>, <<\H16EE, \H16F8>>, <<\H1700, \H1713>>, <<\H171F, \H1733>>,
       <<\H1740, \H1753>>, <<\H1760, \H176C>>, <<\H176E, \H1770>>, <<\H1772, \H1773>>, <<\H1780, \H17B3>>, <<\H17B6, \H17C8>>,
       <<\H17D7, \H17D7>>, <<\H17DC, \H17DC>>, <<\H1820, \H1878>>, <<\H1880, \H18AA>>, <<\H18B0, \H18F5>>, <<\H1900, \H191E>>,
       <<\H1920, \H192B>>, <<\H1930, \H1938>>, <<\H1950, \H196D>>, <<\H1970, \H1974>>, <<\H1980, \H19AB>>, <<\H19B0, \H19C9>>,
       <<\H1A00, \H1A1B>>, <<\H1A20, \H1A5E>>, <<\H1A61, \H1A74>>, <<\H1AA7, \H1AA7>>, <<\H1ABF, \H1AC0>>, <<\H1ACC, \H1ACE>>,
       <<\H1B00, \H1B33>>, <<\H1B35, \H1B43>>, <<\H1B45, \H1B4C>>, <<\H1B80, \H1BA9>>, <<\H1BAC, \H1BAF>>, <<\H1BBA, \H1BE5>>,
       <<\H1BE7, \H1BF1>>, <<\H1C00, \H1C36>>, <<\H1C4D, \H1C4F>>, <<\H1C5A, \H1C7D>>, <<\H1C80, \H1C88>>, <<\H1C90, \H1CBA>>,
       <<\H1CBD, \H1CBF>>, <<\H1CE9, \H1CEC>>, <<\H1CEE, \H1CF3>>, <<\H1CF5, \H1CF6>>, <<\H1CFA, \H1CFA>>, <<\H1D00, \H1DBF>>,
       <<\H1DE7, \H1DF4>>, <<\H1E00, \H1F15>>, <<\H1F18, \H1F1D>>, <<\H1F20, \H1F45>>, <<\H1F48, \H1F4D>>, <<\H1F50, \H1F57>>,
       <<\H1F59, \H1F59>>, <<\H1F5B, \H1F5B>>, <<\H1F5D, \H1F5D>>, <<\H1F5F, \H1F7D>>, <<\H1F80, \H1FB4>>, <<\H1FB6, \H1FBC>>,
       <<\H1FBE, \H1FBE>>, <<\H1FC2, \H1FC4>>, <<\H1FC6, \H1FCC>>, <<\H1FD0, \H1FD3>>, <<\H1FD6, \H1FDB>>, <<\H1FE0, \H1FEC>>,
       <<\H1FF2, \H1FF4>>, <<\H1FF6, \H1FFC>>, <<\H2071, \H2071>>, <<\H207F, \H207F>>, <<\H2090, \H209C>>, <<\H2102, \H2102>>,
       <<\H2107, \H2107>>, <<\H210A, \H2113>>, <<\H2115, \H2115>>, <<\H2119, \H211D>>, <<\H2124, \H2124>>, <<\H2126, \H2126>>,
       <<\H2128, \H2128>>, <<\H212A, \H212D>>, <<\H212F, \H2139>>, <<\H213C, \H213F>>, <<\H2145, \H2149>>, <<\H214E, \H214E>>,
       <<\H2160, \H2188>>, <<\H24B6, \H24E9>>, <<\H2C00, \H2CE4>>, <<\H2CEB, \H2CEE>>, <<\H2CF2, \H2CF3>>, <<\H2D00, \H2D25>>,
       <<\H2D27, \H2D27>>, <<\H2D2D, \H2D2D>>, <<\H2D30, \H2D67>>, <<\H2D6F, \H2D6F>>, <<\H2D80, \H2D96>>, <<\H2DA0, \H2DA6>>,
       <<\H2DA8, \H2DAE>>, <<\H2DB0, \H2DB6>>, <<\H2DB8, \H2DBE>>, <<\H2DC0, \H2DC6>>, <<\H2DC8, \H2DCE>>, <<\H2DD0, \H2DD6>>,
       <<\H2DD8, \H2DDE>>, <<\H2DE0, \H2DFF>>, <<\H2E2F, \H2E2F>>, <<\H3005, \H3007>>, <<\H3021, \H3029>>, <<\H3031, \H3035>>,
       <<\H3038, \H303C>>, <<\H3041, \H3096>>, <<\H309D, \H309F>>, <<\H30A1, \H30FA>>, <<\H30FC, \H30FF>>, <<\H3105, \H312F>>,
       <<\H3131, \H318E>>, <<\H31A0, \H31BF>>, <<\H31F0, \H31FF>>, <<\H3400, \H4DBF>>, <<\H4E00, \HA48C>>, <<\HA4D0, \HA4FD>>,
       <<\HA500, \HA60C>>, <<\HA610, \HA61F>>, <<\HA62A, \HA62B>>, <<\HA640, \HA66E>>, <<\HA674, \HA67B>>, <<\HA67F, \HA6EF>>,
       <<\HA717, \HA71F>>, <<\HA722, \HA788>>, <<\HA78B, \HA7CA>>, <<\HA7D0, \HA7D1>>, <<\HA7D3, \HA7D3>>, <<\HA7D5, \HA7D9>>,
       <<\HA7F2, \HA805>>, <<\HA807, \HA827>>, <<\HA840, \HA873>>, <<\HA880, \HA8C3>>, <<\HA8C5, \HA8C5>>, <<\HA8F2, \HA8F7>>,
       <<\HA8FB, \HA8FB>>, <<\HA8FD, \HA8FF>>, <<\HA90A, \HA92A>>, <<\HA930, \HA952>>, <<\HA960, \HA97C>>, <<\HA980, \HA9B2>>,
       <<\HA9B4, \HA9BF>>, <<\HA9CF, \HA9CF>>, <<\HA9E0, \HA9EF>>, <<\HA9FA, \HA9FE>>, <<\HAA00, \HAA36>>, <<\HAA40, \HAA4D>>,
       <<\HAA60, \HAA76>>, <<\HAA7A, \HAABE>>, <<\HAAC0, \HAAC0>>, <<\HAAC2, \HAAC2>>, <<\HAADB, \HAADD>>, <<\HAAE0, \HAAEF>>,
       <<\HAAF2, \HAAF5>>, <<\HAB01, \HAB06>>, <<\HAB09, \HAB0E>>, <<\HAB11, \HAB16>>, <<\HAB20, \HAB26>>, <<\HAB28, \HAB2E>>,
       <<\HAB30, \HAB5A>>, <<\HAB5C, \HAB69>>, <<\HAB70, \HABEA>>, <<\HAC00, \HD7A3>>, <<\HD7B0, \HD7C6>>, <<\HD7CB, \HD7FB>>,
       <<\HF900, \HFA6D>>, <<\HFA70, \HFAD9>>, <<\HFB00, \HFB06>>, <<\HFB13, \HFB17>>, <<\HFB1D, \HFB28>>, <<\HFB2A, \HFB36>>,
       <<\HFB38, \HFB3C>>, <<\HFB3E, \HFB3E>>, <<\HFB40, \HFB41>>, <<\HFB43, \HFB44>>, <<\HFB46, \HFBB1>>, <<\HFBD3, \HFD3D>>,
       <<\HFD50, \HFD8F>>, <<\HFD92, \HFDC7>>, <<\HFDF0, \HFDFB>>, <<\HFE70, \HFE74>>, <<\HFE76, \HFEFC>>, <<\HFF21, \HFF3A>>,
       <<\HFF41, \HFF5A>>, <<\HFF66, \HFFBE>>, <<\HFFC2, \HFFC7>>, <<\HFFCA, \HFFCF>>, <<\HFFD2, \HFFD7>>, <<\HFFDA, \HFFDC>>,
       <<\H10000, \H1000B>>, <<\H1000D, \H10026>>, <<\H10028, \H1003A>>, <<\H1003C, \H1003D>>, <<\H1003F, \H1004D>>, <<\H10050, \H1005D>>,
       <<\H10080, \H100FA>>, <<\H10140, \H10174>>, <<\H10280, \H1029C>>, <<\H102A0, \H102D0>>, <<\H10300, \H1031F>>, <<\H1032D, \H1034A>>,
       <<\H10350, \H1037A>>, <<\H10380, \H1039D>>, <<\H103A0, \H103C3>>, <<\H103C8, \H103CF>>, <<\H103D1, \H103D5>>, <<\H10400, \H1049D>>,
       <<\H104B0, \H104D3>>, <<\H104D8, \H104FB>>, <<\H10500, \H10527>>, <<\H10530, \H10563>>, <<\H10570, \H1057A>>, <<\H1057C, \H1058A>>,
       <<\H1058C, \H10592>>, <<\H10594, \H10595>>, <<\H10597, \H105A1>>, <<\H105A3, \H105B1>>, <<\H105B3, \H105B9>>, <<\H105BB, \H105BC>>,
       <<\H10600, \H10736>>, <<\H10740, \H10755>>, <<\H10760, \H10767>>, <<\H10780, \H10785>>, <<\H10787, \H107B0>>, <<\H107B2, \H107BA>>,
       <<\H10800, \H10805>>, <<\H10808, \H10808>>, <<\H1080A, \H10835>>, <<\H10837, \H10838>>, <<\H1083C, \H1083C>>, <<\H1083F, \H10855>>,
       <<\H10860, \H10876>>, <<\H10880, \H1089E>>, <<\H108E0, \H108F2>>, <<\H108F4, \H108F5>>, <<\H10900, \H10915>>, <<\H10920, \H10939>>,
       <<\H10980, \H109B7>>, <<\H109BE, \H109BF>>, <<\H10A00, \H10A03>>, <<\H10A05, \H10A06>>, <<\H10A0C, \H10A13>>, <<\H10A15, \H10A17>>,
       <<\H10A19, \H10A35>>, <<\H10A60, \H10A7C>>, <<\H10A80, \H10A9C>>, <<\H10AC0, \H10AC7>>, <<\H10AC9, \H10AE4>>, <<\H10B00, \H10B35>>,
       <<\H10B40, \H10B55>>, <<\H10B60, \H10B72>>, <<\H10B80, \H10B91>>, <<\H10C00, \H10C48>>, <<\H10C80, \H10CB2>>, <<\H10CC0, \H10CF2>>,
       <<\H10D00, \H10D27>>, <<\H10E80, \H10EA9>>, <<\H10EAB, \H10EAC>>, <<\H10EB0, \H10EB1>>, <<\H10F00, \H10F1C>>, <<\H10F27, \H10F27>>,
       <<\H10F30, \H10F45>>, <<\H10F70, \H10F81>>, <<\H10FB0, \H10FC4>>, <<\H10FE0, \H10FF6>>, <<\H11000, \H11045>>, <<\H11071, \H11075>>,
       <<\H11082, \H110B8>>, <<\H110C2, \H110C2>>, <<\H110D0, \H110E8>>, <<\H11100, \H11132>>, <<\H11144, \H11147>>, <<\H11150, \H11172>>,
       <<\H11176, \H11176>>, <<\H11180, \H111BF>>, <<\H111C1, \H111C4>>, <<\H111CE, \H111CF>>, <<\H111DA, \H111DA>>, <<\H111DC, \H111DC>>,
       <<\H11200, \H11211>>, <<\H11213, \H11234>>, <<\H11237, \H11237>>, <<\H1123E, \H1123E>>, <<\H11280, \H11286>>, <<\H11288, \H11288>>,
       <<\H1128A, \H1128D>>, <<\H1128F, \H1129D>>, <<\H1129F, \H112A8>>, <<\H112B0, \H112E8>>, <<\H11300, \H11303>>, <<\H11305, \H1130C>>,
       <<\H1130F, \H11310>>, <<\H11313, \H11328>>, <<\H1132A, \H11330>>, <<\H11332, \H11333>>, <<\H11335, \H11339>>, <<\H1133D, \H11344>>,
       <<\H11347, \H11348>>, <<\H1134B, \H1134C>>, <<\H11350, \H11350>>, <<\H11357, \H11357>>, <<\H1135D, \H11363>>, <<\H11400, \H11441>>,
       <<\H11443, \H11445>>, <<\H11447, \H1144A>>, <<\H1145F, \H11461>>, <<\H11480, \H114C1>>, <<\H114C4, \H114C5>>, <<\H114C7, \H114C7>>,
       <<\H11580, \H115B5>>, <<\H115B8, \H115BE>>, <<\H115D8, \H115DD>>, <<\H11600, \H1163E>>, <<\H11640, \H11640>>, <<\H11644, \H11644>>,
       <<\H11680, \H116B5>>, <<\H116B8, \H116B8>>, <<\H11700, \H1171A>>, <<\H1171D, \H1172A>>, <<\H11740, \H11746>>, <<\H11800, \H11838>>,
       <<\H118A0, \H118DF>>, <<\H118FF, \H11906>>, <<\H11909, \H11909>>, <<\H1190C, \H11913>>, <<\H11915, \H11916>>, <<\H11918, \H11935>>,
       <<\H11937, \H11938>>, <<\H1193B, \H1193C>>, <<\H1193F, \H11942>>, <<\H119A0, \H119A7>>, <<\H119AA, \H119D7>>, <<\H119DA, \H119DF>>,
       <<\H119E1, \H119E1>>, <<\H119E3, \H119E4>>, <<\H11A00, \H11A32>>, <<\H11A35, \H11A3E>>, <<\H11A50, \H11A97>>, <<\H11A9D, \H11A9D>>,
       <<\H11AB0, \H11AF8>>, <<\H11C00, \H11C08>>, <<\H11C0A, \H11C36>>, <<\H11C38, \H11C3E>>, <<\H11C40, \H11C40>>, <<\H11C72, \H11C8F>>,
       <<\H11C92, \H11CA7>>, <<\H11CA9, \H11CB6>>, <<\H11D00, \H11D06>>, <<\H11D08, \H11D09>>, <<\H11D0B, \H11D36>>, <<\H11D3A, \H11D3A>>,
       <<\H11D3C, \H11D3D>>, <<\H11D3F, \H11D41>>, <<\H11D43, \H11D43>>, <<\H11D46, \H11D47>>, <<\H11D60, \H11D65>>, <<\H11D67, \H11D68>>,
       <<\H11D6A, \H11D8E>>, <<\H11D90, \H11D91>>, <<\H11D93, \H11D96>>, <<\H11D98, \H11D98>>, <<\H11EE0, \H11EF6>>, <<\H11FB0, \H11FB0>>,
       <<\H12000, \H12399>>, <<\H12400, \H1246E>>, <<\H12480, \H12543>>, <<\H12F90, \H12FF0>>, <<\H13000, \H1342E>>, <<\H14400, \H14646>>,
       <<\H16800, \H16A38>>, <<\H16A40, \H16A5E>>, <<\H16A70, \H16ABE>>, <<\H16AD0, \H16AED>>, <<\H16B00, \H16B2F>>, <<\H16B40, \H16B43>>,
       <<\H16B63, \H16B77>>, <<\H16B7D, \H16B8F>>, <<\H16E40, \H16E7F>>, <<\H16F00, \H16F4A>>, <<\H16F4F, \H16F87>>, <<\H16F8F, \H16F9F>>,
       <<\H16FE0, \H16FE1>>, <<\H16FE3, \H16FE3>>, <<\H16FF0, \H16FF1>>, <<\H17000, \H187F7>>, <<\H18800, \H18CD5>>, <<\H18D00, \H18D08>>,
       <<\H1AFF0, \H1AFF3>>, <<\H1AFF5, \H1AFFB>>, <<\H1AFFD, \H1AFFE>>, <<\H1B000, \H1B122>>, <<\H1B150, \H1B152>>, <<\H1B164, \H1B167>>,
       <<\H1B170, \H1B2FB>>, <<\H1BC00, \H1BC6A>>, <<\H1BC70, \H1BC7C>>, <<\H1BC80, \H1BC88>>, <<\H1BC90, \H1BC99>>, <<\H1BC9E, \H1BC9E>>,
       <<\H1D400, \H1D454>>, <<\H1D456, \H1D49C>>, <<\H1D49E, \H1D49F>>, <<\H1D4A2, \H1D4A2>>, <<\H1D4A5, \H1D4A6>>, <<\H1D4A9, \H1D4AC>>,
       <<\H1D4AE, \H1D4B9>>, <<\H1D4BB, \H1D4BB>>, <<\H1D4BD, \H1D4C3>>, <<\H1D4C5, \H1D505>>, <<\H1D507, \H1D50A>>, <<\H1D50D, \H1D514>>,
       <<\H1D516, \H1D51C>>, <<\H1D51E, \H1D539>>, <<\H1D53B, \H1D53E>>, <<\H1D540, \H1D544>>, <<\H1D546, \H1D546>>, <<\H1D54A, \H1D550>>,
       <<\H1D552, \H1D6A5>>, <<\H1D6A8, \H1D6C0>>, <<\H1D6C2, \H1D6DA>>, <<\H1D6DC, \H1D6FA>>, <<\H1D6FC, \H1D714>>, <<\H1D716, \H1D734>>,
       <<\H1D736, \H1D74E>>, <<\H1D750, \H1D76E>>, <<\H1D770, \H1D788>>, <<\H1D78A, \H1D7A8>>, <<\H1D7AA, \H1D7C2>>, <<\H1D7C4, \H1D7CB>>,
       <<\H1DF00, \H1DF1E>>, <<\H1E000, \H1E006>>, <<\H1E008, \H1E018>>, <<\H1E01B, \H1E021>>, <<\H1E023, \H1E024>>, <<\H1E026, \H1E02A>>,
       <<\H1E100, \H1E12C>>, <<\H1E137, \H1E13D>>, <<\H1E14E, \H1E14E>>, <<\H1E290, \H1E2AD>>, <<\H1E2C0, \H1E2EB>>, <<\H1E7E0, \H1E7E6>>,
       <<\H1E7E8, \H1E7EB>>, <<\H1E7ED, \H1E7EE>>, <<\H1E7F0, \H1E7FE>>, <<\H1E800, \H1E8C4>>, <<\H1E900, \H1E943>>, <<\H1E947, \H1E947>>,
       <<\H1E94B, \H1E94B>>, <<\H1EE00, \H1EE03>>, <<\H1EE05, \H1EE1F>>, <<\H1EE21, \H1EE22>>, <<\H1EE24, \H1EE24>>, <<\H1EE27, \H1EE27>>,
       <<\H1EE29, \H1EE32>>, <<\H1EE34, \H1EE37>>, <<\H1EE39, \H1EE39>>, <<\H1EE3B, \H1EE3B>>, <<\H1EE42, \H1EE42>>, <<\H1EE47, \H1EE47>>,
       <<\H1EE49, \H1EE49>>, <<\H1EE4B, \H1EE4B>>, <<\H1EE4D, \H1EE4F>>, <<\H1EE51, \H1EE52>>, <<\H1EE54, \H1EE54>>, <<\H1EE57, \H1EE57>>,
       <<\H1EE59, \H1EE59>>, <<\H1EE5B, \H1EE5B>>, <<\H1EE5D, \H1EE5D>>, <<\H1EE5F, \H1EE5F>>, <<\H1EE61, \H1EE62>>, <<\H1EE64, \H1EE64>>,
       <<\H1EE67, \H1EE6A>>, <<\H1EE6C, \H1EE72>>, <<\H1EE74, \H1EE77>>, <<\H1EE79, \H1EE7C>>, <<\H1EE7E, \H1EE7E>>, <<\H1EE80, \H1EE89>>,
       <<\H1EE8B, \H1EE9B>>, <<\H1EEA1, \H1EEA3>>, <<\H1EEA5, \H1EEA9>>, <<\H1EEAB, \H1EEBB>>, <<\H1F130, \H1F149>>, <<\H1F150, \H1F169>>,
       <<\H1F170, \H1F189>>, <<\H20000, \H2A6DF>>, <<\H2A700, \H2B738>>, <<\H2B740, \H2B81D>>, <<\H2B820, \H2CEA1>>, <<\H2CEB0, \H2EBE0>>,
       <<\H2F800, \H2FA1D>>, <<\H30000, \H3134A>> >>

\* the general categories Nd, Nl and No, which char::is_numeric tests (Unicode 14.0), as sorted inclusive ranges.
NumericRanges ==
    << <<\H0030, \H0039>>, <<\H00B2, \H00B3>>, <<\H00B9, \H00B9>>, <<\H00BC, \H00BE>>, <<\H0660, \H0669>>, <<\H06F0, \H06F9>>,
       <<\H07C0, \H07C9>>, <<\H0966, \H096F>>, <<\H09E6, \H09EF>>, <<\H09F4, \H09F9>>, <<\H0A66, \H0A6F>>, <<\H0AE6, \H0AEF>>,
       <<\H0B66, \H0B6F>>, <<\H0B72, \H0B77>>, <<\H0BE6, \H0BF2>>, <<\H0C66, \H0C6F>>, <<\H0C78, \H0C7E>>, <<\H0CE6, \H0CEF>>,
       <<\H0D58, \H0D5E>>, <<\H0D66, \H0D78>>, <<\H0DE6, \H0DEF>>, <<\H0E50, \H0E59>>, <<\H0ED0, \H0ED9>>, <<\H0F20, \H0F33>>,
       <<\H1040, \H1049>>, <<\H1090, \H1099>>, <<\H1369, \H137C>>, <<\H16EE, \H16F0>>, <<\H17E0, \H17E9>>, <<\H17F0, \H17F9>>,
       <<\H1810, \H1819>>, <<\H1946, \H194F>>, <<\H19D0, \H19DA>>, <<\H1A80, \H1A89>>, <<\H1A90, \H1A99>>, <<\H1B50, \H1B59>>,
       <<\H1BB0, \H1BB9>>, <<\H1C40, \H1C49>>, <<\H1C50, \H1C59>>, <<\H2070, \H2070>>, <<\H2074, \H2079>>, <<\H2080, \H2089>>,
       <<\H2150, \H2182>>, <<\H2185, \H2189>>, <<\H2460, \H249B>>, <<\H24EA, \H24FF>>, <<\H2776, \H2793>>, <<\H2CFD, \H2CFD>>,
       <<\H3007, \H3007>>, <<\H3021, \H3029>>, <<\H3038, \H303A>>, <<\H3192, \H3195>>, <<\H3220, \H3229>>, <<\H3248, \H324F>>,
       <<\H3251, \H325F>>, <<\H3280, \H3289>>, <<\H32B1, \H32BF>>, <<\HA620, \HA629>>, <<\HA6E6, \HA6EF>>, <<\HA830, \HA835>>,
       <<\HA8D0, \HA8D9>>, <<\HA900, \HA909>>, <<\HA9D0, \HA9D9>>, <<\HA9F0, \HA9F9>>, <<\HAA50, \HAA59>>, <<\HABF0, \HABF9>>,
       <<\HFF10, \HFF19>>, <<\H10107, \H10133>>, <<\H10140, \H10178>>, <<\H1018A, \H1018B>>, <<\H102E1, \H102FB>>, <<\H10320, \H10323>>,
       <<\H10341, \H10341>>, <<\H1034A, \H1034A>>, <<\H103D1, \H103D5>>, <<\H104A0, \H104A9>>, <<\H10858, \H1085F>>, <<\H10879, \H1087F>>,
       <<\H108A7, \H108AF>>, <<\H108FB, \H108FF>>, <<\H10916, \H1091B>>, <<\H109BC, \H109BD>>, <<\H109C0, \H109CF>>, <<\H109D2, \H109FF>>,
       <<\H10A40, \H10A48>>, <<\H10A7D, \H10A7E>>, <<\H10A9D, \H10A9F>>, <<\H10AEB, \H10AEF>>, <<\H10B58, \H10B5F>>, <<\H10B78, \H10B7F>>,
       <<\H10BA9, \H10BAF>>, <<\H10CFA, \H10CFF>>, <<\H10D30, \H10D39>>, <<\H10E60, \H10E7E>>, <<\H10F1D, \H10F26>>, <<\H10F51, \H10F54>>,
       <<\H10FC5, \H10FCB>>, <<\H11052, \H1106F>>, <<\H110F0, \H110F9>>, <<\H11136, \H1113F>>, <<\H111D0, \H111D9>>, <<\H111E1, \H111F4>>,
       <<\H112F0, \H112F9>>, <<\H11450, \H11459>>, <<\H114D0, \H114D9>>, <<\H11650, \H11659>>, <<\H116C0, \H116C9>>, <<\H11730, \H1173B>>,
       <<\H118E0, \H118F2>>, <<\H11950, \H11959>>, <<\H11C50, \H11C6C>>, <<\H11D50, \H11D59>>, <<\H11DA0, \H11DA9>>, <<\H11FC0, \H11FD4>>,
       <<\H12400, \H1246E>>, <<\H16A60, \H16A69>>, <<\H16AC0, \H16AC9>>, <<\H16B50, \H16B59>>, <<\H16B5B, \H16B61>>, <<\H16E80, \H16E96>>,
       <<\H1D2E0, \H1D2F3>>, <<\H1D360, \H1D378>>, <<\H1D7CE, \H1D7FF>>, <<\H1E140, \H1E149>>, <<\H1E2F0, \H1E2F9>>, <<\H1E8C7, \H1E8CF>>,
       <<\H1E950, \H1E959>>, <<\H1EC71, \H1ECAB>>, <<\H1ECAD, \H1ECAF>>, <<\H1ECB1, \H1ECB4>>, <<\H1ED01, \H1ED2D>>, <<\H1ED2F, \H1ED3D>>,
       <<\H1F100, \H1F10C>>, <<\H1FBF0, \H1FBF9>> >>

\* general category Po (Unicode 14.0), as sorted inclusive ranges.
OtherPunctuationRanges ==
    << <<\H0021, \H0023>>, <<\H0025, \H0027>>, <<\H002A, \H002A>>, <<\H002C, \H002C>>, <<\H002E, \H002F>>, <<\H003A, \H003B>>,
       <<\H003F, \H0040>>, <<\H005C, \H005C>>, <<\H00A1, \H00A1>>, <<\H00A7, \H00A7>>, <<\H00B6, \H00B7>>, <<\H00BF, \H00BF>>,
       <<\H037E, \H037E>>, <<\H0387, \H0387>>, <<\H055A, \H055F>>, <<\H0589, \H0589>>, <<\H05C0, \H05C0>>, <<\H05C3, \H05C3>>,
       <<\H05C6, \H05C6>>, <<\H05F3, \H05F4>>, <<\H0609, \H060A>>, <<\H060C, \H060D>>, <<\H061B, \H061B>>, <<\H061D, \H061F>>,
       <<\H066A, \H066D>>, <<\H06D4, \H06D4>>, <<\H0700, \H070D>>, <<\H07F7, \H07F9>>, <<\H0830, \H083E>>, <<\H085E, \H085E>>,
       <<\H0964, \H0965>>, <<\H0970, \H0970>>, <<\H09FD, \H09FD>>, <<\H0A76, \H0A76>>, <<\H0AF0, \H0AF0>>, <<\H0C77, \H0C77>>,
       <<\H0C84, \H0C84>>, <<\H0DF4, \H0DF4>>, <<\H0E4F, \H0E4F>>, <<\H0E5A, \H0E5B>>, <<\H0F04, \H0F12>>, <<\H0F14, \H0F14>>,
       <<\H0F85, \H0F85>>, <<\H0FD0, \H0FD4>>, <<\H0FD9, \H0FDA>>, <<\H104A, \H104F>>, <<\H10FB, \H10FB>>, <<\H1360, \H1368>>,
       <<\H166E, \H166E>>, <<\H16EB, \H16ED>>, <<\H1735, \H1736>>, <<\H17D4, \H17D6>>, <<\H17D8, \H17DA>>, <<\H1800, \H1805>>,
       <<\H1807, \H180A>>, <<\H1944, \H1945>>, <<\H1A1E, \H1A1F>>, <<\H1AA0, \H1AA6>>, <<\H1AA8, \H1AAD>>, <<\H1B5A, \H1B60>>,
       <<\H1B7D, \H1B7E>>, <<\H1BFC, \H1BFF>>, <<\H1C3B, \H1C3F>>, <<\H1C7E, \H1C7F>>, <<\H1CC0, \H1CC7>>, <<\H1CD3, \H1CD3>>,
       <<\H2016, \H2017>>, <<\H2020, \H2027>>, <<\H2030, \H2038>>, <<\H203B, \H203E>>, <<\H2041, \H2043>>, <<\H2047, \H2051>>,
       <<\H2053, \H2053>>, <<\H2055, \H205E>>, <<\H2CF9, \H2CFC>>, <<\H2CFE, \H2CFF>>, <<\H2D70, \H2D70>>, <<\H2E00, \H2E01>>,
       <<\H2E06, \H2E08>>, <<\H2E0B, \H2E0B>>, <<\H2E0E, \H2E16>>, <<\H2E18, \H2E19>>, <<\H2E1B, \H2E1B>>, <<\H2E1E, \H2E1F>>,
       <<\H2E2A, \H2E2E>>, <<\H2E30, \H2E39>>, <<\H2E3C, \H2E3F>>, <<\H2E41, \H2E41>>, <<\H2E43, \H2E4F>>, <<\H2E52, \H2E54>>,
       <<\H3001, \H3003>>, <<\H303D, \H303D>>, <<\H30FB, \H30FB>>, <<\HA4FE, \HA4FF>>, <<\HA60D, \HA60F>>, <<\HA673, \HA673>>,
       <<\HA67E, \HA67E>>, <<\HA6F2, \HA6F7>>, <<\HA874, \HA877>>, <<\HA8CE, \HA8CF>>, <<\HA8F8, \HA8FA>>, <<\HA8FC, \HA8FC>>,
       <<\HA92E, \HA92F>>, <<\HA95F, \HA95F>>, <<\HA9C1, \HA9CD>>, <<\HA9DE, \HA9DF>>, <<\HAA5C, \HAA5F>>, <<\HAADE, \HAADF>>,
       <<\HAAF0, \HAAF1>>, <<\HABEB, \HABEB>>, <<\HFE10, \HFE16>>, <<\HFE19, \HFE19>>, <<\HFE30, \HFE30>>, <<\HFE45, \HFE46>>,
       <<\HFE49, \HFE4C>>, <<\HFE50, \HFE52>>, <<\HFE54, \HFE57>>, <<\HFE5F, \HFE61>>, <<\HFE68, \HFE68>>, <<\HFE6A, \HFE6B>>,
       <<\HFF01, \HFF03>>, <<\HFF05, \HFF07>>, <<\HFF0A, \HFF0A>>, <<\HFF0C, \HFF0C>>, <<\HFF0E, \HFF0F>>, <<\HFF1A, \HFF1B>>,
       <<\HFF1F, \HFF20>>, <<\HFF3C, \HFF3C>>, <<\HFF61, \HFF61>>, <<\HFF64, \HFF65>>, <<\H10100, \H10102>>, <<\H1039F, \H1039F>>,
       <<\H103D0, \H103D0>>, <<\H1056F, \H1056F>>, <<\H10857, \H10857>>, <<\H1091F, \H1091F>>, <<\H1093F, \H1093F>>, <<\H10A50, \H10A58>>,
       <<\H10A7F, \H10A7F>>, <<\H10AF0, \H10AF6>>, <<\H10B39, \H10B3F>>, <<\H10B99, \H10B9C>>, <<\H10F55, \H10F59>>, <<\H10F86, \H10F89>>,
       <<\H11047, \H1104D>>, <<\H110BB, \H110BC>>, <<\H110BE, \H110C1>>, <<\H11140, \H11143>>, <<\H11174, \H11175>>, <<\H111C5, \H111C8>>,
       <<\H111CD, \H111CD>>, <<\H111DB, \H111DB>>, <<\H111DD, \H111DF>>, <<\H11238, \H1123D>>, <<\H112A9, \H112A9>>, <<\H1144B, \H1144F>>,
       <<\H1145A, \H1145B>>, <<\H1145D, \H1145D>>, <<\H114C6, \H114C6>>, <<\H115C1, \H115D7>>, <<\H11641, \H11643>>, <<\H11660, \H1166C>>,
       <<\H116B9, \H116B9>>, <<\H1173C, \H1173E>>, <<\H1183B, \H1183B>>, <<\H11944, \H11946>>, <<\H119E2, \H119E2>>, <<\H11A3F, \H11A46>>,
       <<\H11A9A, \H11A9C>>, <<\H11A9E, \H11AA2>>, <<\H11C41, \H11C45>>, <<\H11C70, \H11C71>>, <<\H11EF7, \H11EF8>>, <<\H11FFF, \H11FFF>>,
       <<\H12470, \H12474>>, <<\H12FF1, \H12FF2>>, <<\H16A6E, \H16A6F>>, <<\H16AF5, \H16AF5>>, <<\H16B37, \H16B3B>>, <<\H16B44, \H16B44>>,
       <<\H16E97, \H16E9A>>, <<\H16FE2, \H16FE2>>, <<\H1BC9F, \H1BC9F>>, <<\H1DA87, \H1DA8B>>, <<\H1E95E, \H1E95F>> >>

\* general category Ps (Unicode 14.0), as sorted inclusive ranges.
OpenPunctuationRanges ==
    << <<\H0028, \H0028>>, <<\H005B, \H005B>>, <<\H007B, \H007B>>, <<\H0F3A, \H0F3A>>, <<\H0F3C, \H0F3C>>, <<\H169B, \H169B>>,
       <<\H201A, \H201A>>, <<\H201E, \H201E>>, <<\H2045, \H2045>>, <<\H207D, \H207D>>, <<\H208D, \H208D>>, <<\H2308, \H2308>>,
       <<\H230A, \H230A>>, <<\H2329, \H2329>>, <<\H2768, \H2768>>, <<\H276A, \H276A>>, <<\H276C, \H276C>>, <<\H276E, \H276E>>,
       <<\H2770, \H2770>>, <<\H2772, \H2772>>, <<\H2774, \H2774>>, <<\H27C5, \H27C5>>, <<\H27E6, \H27E6>>, <<\H27E8, \H27E8>>,
       <<\H27EA, \H27EA>>, <<\H27EC, \H27EC>>, <<\H27EE, \H27EE>>, <<\H2983, \H2983>>, <<\H2985, \H2985>>, <<\H2987, \H2987>>,
       <<\H2989, \H2989>>, <<\H298B, \H298B>>, <<\H298D, \H298D>>, <<\H298F, \H298F>>, <<\H2991, \H2991>>, <<\H2993, \H2993>>,
       <<\H2995, \H2995>>, <<\H2997, \H2997>>, <<\H29D8, \H29D8>>, <<\H29DA, \H29DA>>, <<\H29FC, \H29FC>>, <<\H2E22, \H2E22>>,
       <<\H2E24, \H2E24>>, <<\H2E26, \H2E26>>, <<\H2E28, \H2E28>>, <<\H2E42, \H2E42>>, <<\H2E55, \H2E55>>, <<\H2E57, \H2E57>>,
       <<\H2E59, \H2E59>>, <<\H2E5B, \H2E5B>>, <<\H3008, \H3008>>, <<\H300A, \H300A>>, <<\H300C, \H300C>>, <<\H300E, \H300E>>,
       <<\H3010, \H3010>>, <<\H3014, \H3014>>, <<\H3016, \H3016>>, <<\H3018, \H3018>>, <<\H301A, \H301A>>, <<\H301D, \H301D>>,
       <<\HFD3F, \HFD3F>>, <<\HFE17, \HFE17>>, <<\HFE35, \HFE35>>, <<\HFE37, \HFE37>>, <<\HFE39, \HFE39>>, <<\HFE3B, \HFE3B>>,
       <<\HFE3D, \HFE3D>>, <<\HFE3F, \HFE3F>>, <<\HFE41, \HFE41>>, <<\HFE43, \HFE43>>, <<\HFE47, \HFE47>>, <<\HFE59, \HFE59>>,
       <<\HFE5B, \HFE5B>>, <<\HFE5D, \HFE5D>>, <<\HFF08, \HFF08>>, <<\HFF3B, \HFF3B>>, <<\HFF5B, \HFF5B>>, <<\HFF5F, \HFF5F>>,
       <<\HFF62, \HFF62>> >>

\* general category Pe (Unicode 14.0), as sorted inclusive ranges.
ClosePunctuationRanges ==
    << <<\H0029, \H0029>>, <<\H005D, \H005D>>, <<\H007D, \H007D>>, <<\H0F3B, \H0F3B>>, <<\H0F3D, \H0F3D>>, <<\H169C, \H169C>>,
       <<\H2046, \H2046>>, <<\H207E, \H207E>>, <<\H208E, \H208E>>, <<\H2309, \H2309>>, <<\H230B, \H230B>>, <<\H232A, \H232A>>,
       <<\H2769, \H2769>>, <<\H276B, \H276B>>, <<\H276D, \H276D>>, <<\H276F, \H276F>>, <<\H2771, \H2771>>, <<\H2773, \H2773>>,
       <<\H2775, \H2775>>, <<\H27C6, \H27C6>>, <<\H27E7, \H27E7>>, <<\H27E9, \H27E9>>, <<\H27EB, \H27EB>>, <<\H27ED, \H27ED>>,
       <<\H27EF, \H27EF>>, <<\H2984, \H2984>>, <<\H2986, \H2986>>, <<\H2988, \H2988>>, <<\H298A, \H298A>>, <<\H298C, \H298C>>,
       <<\H298E, \H298E>>, <<\H2990, \H2990>>, <<\H2992, \H2992>>, <<\H2994, \H2994>>, <<\H2996, \H2996>>, <<\H2998, \H2998>>,
       <<\H29D9, \H29D9>>, <<\H29DB, \H29DB>>, <<\H29FD, \H29FD>>, <<\H2E23, \H2E23>>, <<\H2E25, \H2E25>>, <<\H2E27, \H2E27>>,
       <<\H2E29, \H2E29>>, <<\H2E56, \H2E56>>, <<\H2E58, \H2E58>>, <<\H2E5A, \H2E5A>>, <<\H2E5C, \H2E5C>>, <<\H3009, \H3009>>,
       <<\H300B, \H300B>>, <<\H300D, \H300D>>, <<\H300F, \H300F>>, <<\H3011, \H3011>>, <<\H3015, \H3015>>, <<\H3017, \H3017>>,
       <<\H3019, \H3019>>, <<\H301B, \H301B>>, <<\H301E, \H301F>>, <<\HFD3E, \HFD3E>>, <<\HFE18, \HFE18>>, <<\HFE36, \HFE36>>,
       <<\HFE38, \HFE38>>, <<\HFE3A, \HFE3A>>, <<\HFE3C, \HFE3C>>, <<\HFE3E, \HFE3E>>, <<\HFE40, \HFE40>>, <<\HFE42, \HFE42>>,
       <<\HFE44, \HFE44>>, <<\HFE48, \HFE48>>, <<\HFE5A, \HFE5A>>, <<\HFE5C, \HFE5C>>, <<\HFE5E, \HFE5E>>, <<\HFF09, \HFF09>>,
       <<\HFF3D, \HFF3D>>, <<\HFF5D, \HFF5D>>, <<\HFF60, \HFF60>>, <<\HFF63, \HFF63>> >>

\* general category Pi (Unicode 14.0), as sorted inclusive ranges.
InitialPunctuationRanges ==
    << <<\H00AB, \H00AB>>, <<\H2018, \H2018>>, <<\H201B, \H201C>>, <<\H201F, \H201F>>, <<\H2039, \H2039>>, <<\H2E02, \H2E02>>,
       <<\H2E04, \H2E04>>, <<\H2E09, \H2E09>>, <<\H2E0C, \H2E0C>>, <<\H2E1C, \H2E1C>>, <<\H2E20, \H2E20>> >>

\* general category Pf (Unicode 14.0), as sorted inclusive ranges.
FinalPunctuationRanges ==
    << <<\H00BB, \H00BB>>, <<\H2019, \H2019>>, <<\H201D, \H201D>>, <<\H203A, \H203A>>, <<\H2E03, \H2E03>>, <<\H2E05, \H2E05>>,
       <<\H2E0A, \H2E0A>>, <<\H2E0D, \H2E0D>>, <<\H2E1D, \H2E1D>>, <<\H2E21, \H2E21>> >>

\* general category Pc (Unicode 14.0), as sorted inclusive ranges.
ConnectorPunctuationRanges ==
    << <<\H005F, \H005F>>, <<\H203F, \H2040>>, <<\H2054, \H2054>>, <<\HFE33, \HFE34>>, <<\HFE4D, \HFE4F>>, <<\HFF3F, \HFF3F>> >>

\* general category Pd (Unicode 14.0), as sorted inclusive ranges.
DashPunctuationRanges ==
    << <<\H002D, \H002D>>, <<\H058A, \H058A>>, <<\H05BE, \H05BE>>, <<\H1400, \H1400>>, <<\H1806, \H1806>>, <<\H2010, \H2015>>,
       <<\H2E17, \H2E17>>, <<\H2E1A, \H2E1A>>, <<\H2E3A, \H2E3B>>, <<\H2E40, \H2E40>>, <<\H2E5D, \H2E5D>>, <<\H301C, \H301C>>,
       <<\H3030, \H3030>>, <<\H30A0, \H30A0>>, <<\HFE31, \HFE32>>, <<\HFE58, \HFE58>>, <<\HFE63, \HFE63>>, <<\HFF0D, \HFF0D>>,
       <<\H10EAD, \H10EAD>> >>

\* general category Sm (Unicode 14.0), as sorted inclusive ranges.
MathSymbolRanges ==
    << <<\H002B, \H002B>>, <<\H003C, \H003E>>, <<\H007C, \H007C>>, <<\H007E, \H007E>>, <<\H00AC, \H00AC>>, <<\H00B1, \H00B1>>,
       <<\H00D7, \H00D7>>, <<\H00F7, \H00F7>>, <<\H03F6, \H03F6>>, <<\H0606, \H0608>>, <<\H2044, \H2044>>, <<\H2052, \H2052>>,
       <<\H207A, \H207C>>, <<\H208A, \H208C>>, <<\H2118, \H2118>>, <<\H2140, \H2144>>, <<\H214B, \H214B>>, <<\H2190, \H2194>>,
       <<\H219A, \H219B>>, <<\H21A0, \H21A0>>, <<\H21A3, \H21A3>>, <<\H21A6, \H21A6>>, <<\H21AE, \H21AE>>, <<\H21CE, \H21CF>>,
       <<\H21D2, \H21D2>>, <<\H21D4, \H21D4>>, <<\H21F4, \H22FF>>, <<\H2320, \H2321>>, <<\H237C, \H237C>>, <<\H239B, \H23B3>>,
       <<\H23DC, \H23E1>>, <<\H25B7, \H25B7>>, <<\H25C1, \H25C1>>, <<\H25F8, \H25FF>>, <<\H266F, \H266F>>, <<\H27C0, \H27C4>>,
       <<\H27C7, \H27E5>>, <<\H27F0, \H27FF>>, <<\H2900, \H2982>>, <<\H2999, \H29D7>>, <<\H29DC, \H29FB>>, <<\H29FE, \H2AFF>>,
       <<\H2B30, \H2B44>>, <<\H2B47, \H2B4C>>, <<\HFB29, \HFB29>>, <<\HFE62, \HFE62>>, <<\HFE64, \HFE66>>, <<\HFF0B, \HFF0B>>,
       <<\HFF1C, \HFF1E>>, <<\HFF5C, \HFF5C>>, <<\HFF5E, \HFF5E>>, <<\HFFE2, \HFFE2>>, <<\HFFE9, \HFFEC>>, <<\H1D6C1, \H1D6C1>>,
       <<\H1D6DB, \H1D6DB>>, <<\H1D6FB, \H1D6FB>>, <<\H1D715, \H1D715>>, <<\H1D735, \H1D735>>, <<\H1D74F, \H1D74F>>, <<\H1D76F, \H1D76F>>,
       <<\H1D789, \H1D789>>, <<\H1D7A9, \H1D7A9>>, <<\H1D7C3, \H1D7C3>>, <<\H1EEF0, \H1EEF1>> >>

\* general category Sc (Unicode 14.0), as sorted inclusive ranges.
CurrencySymbolRanges ==
    << <<\H0024, \H0024>>, <<\H00A2, \H00A5>>, <<\H058F, \H058F>>, <<\H060B, \H060B>>, <<\H07FE, \H07FF>>, <<\H09F2, \H09F3>>,
       <<\H09FB, \H09FB>>, <<\H0AF1, \H0AF1>>, <<\H0BF9, \H0BF9>>, <<\H0E3F, \H0E3F>>, <<\H17DB, \H17DB>>, <<\H20A0, \H20C0>>,
       <<\HA838, \HA838>>, <<\HFDFC, \HFDFC>>, <<\HFE69, \HFE69>>, <<\HFF04, \HFF04>>, <<\HFFE0, \HFFE1>>, <<\HFFE5, \HFFE6>>,
       <<\H11FDD, \H11FE0>>, <<\H1E2FF, \H1E2FF>>, <<\H1ECB0, \H1ECB0>> >>

\* general category Sk (Unicode 14.0), as sorted inclusive ranges.
ModifierSymbolRanges ==
    << <<\H005E, \H005E>>, <<\H0060, \H0060>>, <<\H00A8, \H00A8>>, <<\H00AF, \H00AF>>, <<\H00B4, \H00B4>>, <<\H00B8, \H00B8>>,
       <<\H02C2, \H02C5>>, <<\H02D2, \H02DF>>, <<\H02E5, \H02EB>>, <<\H02ED, \H02ED>>, <<\H02EF, \H02FF>>, <<\H0375, \H0375>>,
       <<\H0384, \H0385>>, <<\H0888, \H0888>>, <<\H1FBD, \H1FBD>>, <<\H1FBF, \H1FC1>>, <<\H1FCD, \H1FCF>>, <<\H1FDD, \H1FDF>>,
       <<\H1FED, \H1FEF>>, <<\H1FFD, \H1FFE>>, <<\H309B, \H309C>>, <<\HA700, \HA716>>, <<\HA720, \HA721>>, <<\HA789, \HA78A>>,
       <<\HAB5B, \HAB5B>>, <<\HAB6A, \HAB6B>>, <<\HFBB2, \HFBC2>>, <<\HFF3E, \HFF3E>>, <<\HFF40, \HFF40>>, <<\HFFE3, \HFFE3>>,
       <<\H1F3FB, \H1F3FF>> >>
(***************************************************************************)
(* The range tables of chars.rs, in the order the source lists them.       *)
(***************************************************************************)

\* Variant: the first range runs to the end of the Hiragana block, over the
\* range after it.
HiraganaRanges_whole_block ==
    << <<\H3041, \H309F>>, <<\H3099, \H309F>>,
       <<\H1B100, \H1B12F>>,
       <<\H1AFF0, \H1AFFF>>,
       <<\H1B000, \H1B0FF>>,
       <<\H1B130, \H1B16F>> >>

\* Variant: the second range ends one too far, on the first katakana value.
HiraganaRanges_off_by_one ==
    << <<\H3041, \H3096>>, <<\H3099, \H30A0>>,
       <<\H1B100, \H1B12F>>,
       <<\H1AFF0, \H1AFFF>>,
       <<\H1B000, \H1B0FF>>,
       <<\H1B130, \H1B16F>> >>

HiraganaRanges ==
    << <<\H3041, \H3096>>, <<\H3099, \H309F>>,
       <<\H1B100, \H1B12F>>,
       <<\H1AFF0, \H1AFFF>>,
       <<\H1B000, \H1B0FF>>,
       <<\H1B130, \H1B16F>> >>

KatakanaRanges ==
    << <<\H30A0, \H30FF>> >>

KanjiRanges ==
    << <<\H4E00, \H9FFF>>,
       <<\H3400, \H4DBF>>,
       <<\H20000, \H2A6DF>>,
       <<\H2A700, \H2B739>>,
       <<\H2B740, \H2B81D>>,
       <<\H2B820, \H2CEA1>>,
       <<\H2CEB0, \H2EBE0>>,
       <<\H30000, \H3134A>>,
       <<\H31350, \H323AF>>,
       <<\H2EBF0, \H2EE5D>>,
       <<\HF900, \HFAFF>>,
       <<\H2F800, \H2FA1F>> >>

\* Variant: the half-open range lo..hi.
contains_exclusive(r, c) == r[1] <= c /\ c < r[2]

\* (lo..=hi).contains(&c)
contains(r, c) == r[1] <= c /\ c <= r[2]

\* A chain r1.contains(c) || r2.contains(c) || ... over a table.
InRanges(T, c) == \E i \in DOMAIN T : contains(T[i], c)

char_is_hiragana(c) == InRanges(HiraganaRanges, c)

char_is_katakana(c) == InRanges(KatakanaRanges, c)

char_is_kanji(c) == InRanges(KanjiRanges, c)

\* LineEnding::from_char: the line ending c is, "None" when it is none.
\* LF under either policy; VT, FF, NEL, LS, PS only with unicode-lines.
from_char(c) ==
    CASE c = \H000A -> "LF"
      [] unicode_lines /\ c = \H000B -> "VT"
      [] unicode_lines /\ c = \H000C -> "FF"
      [] unicode_lines /\ c = \H0085 -> "Nel"
      [] unicode_lines /\ c = \H2028 -> "LS"
      [] unicode_lines /\ c = \H2029 -> "PS"
      [] OTHER -> "None"

char_is_line_ending(c) == from_char(c) # "None"

\* Variant: the half-open range '\u{2000}'..'\u{200B}'.
char_is_whitespace_exclusive(c) ==
    CASE c \in {\H0009, \H0020, \H00A0, \H180E, \H202F, \H205F, \H3000, \HFEFF} -> TRUE
      [] \H2000 <= c /\ c < \H200B -> TRUE
      [] OTHER -> FALSE

char_is_whitespace(c) ==
    CASE c \in {\H0009, \H0020, \H00A0, \H180E, \H202F, \H205F, \H3000, \HFEFF} -> TRUE
      [] contains(<<\H2000, \H200B>>, c) -> TRUE
      [] OTHER -> FALSE

\* Lookup of c in one of the sorted Unicode tables, by bisection.
RECURSIVE bsearch_range(_, _, _, _)
bsearch_range(T, c, lo, hi) ==
    IF lo > hi THEN FALSE
    ELSE LET mid == (lo + hi) \div 2
         IN  IF c < T[mid][1] THEN bsearch_range(T, c, lo, mid - 1)
             ELSE IF c > T[mid][2] THEN bsearch_range(T, c, mid + 1, hi)
             ELSE TRUE

InTable(T, c) == bsearch_range(T, c, 1, Len(T))

\* char::is_whitespace
is_whitespace(c) == InTable(White_SpaceRanges, c)

\* char::is_alphanumeric: is_alphabetic() || is_numeric()
is_alphanumeric(c) == InTable(AlphabeticRanges, c) \/ InTable(NumericRanges, c)

\* unicode_general_category::get_general_category, for the ten categories
\* char_is_punctuation matches on; every other category is "Other".
get_general_category(c) ==
    CASE InTable(OtherPunctuationRanges, c) -> "OtherPunctuation"
      [] InTable(OpenPunctuationRanges, c) -> "OpenPunctuation"
      [] InTable(ClosePunctuationRanges, c) -> "ClosePunctuation"
      [] InTable(InitialPunctuationRanges, c) -> "InitialPunctuation"
      [] InTable(FinalPunctuationRanges, c) -> "FinalPunctuation"
      [] InTable(ConnectorPunctuationRanges, c) -> "ConnectorPunctuation"
      [] InTable(DashPunctuationRanges, c) -> "DashPunctuation"
      [] InTable(MathSymbolRanges, c) -> "MathSymbol"
      [] InTable(CurrencySymbolRanges, c) -> "CurrencySymbol"
      [] InTable(ModifierSymbolRanges, c) -> "ModifierSymbol"
      [] OTHER -> "Other"

\* Variant: the punctuation categories only, without the symbols.
char_is_punctuation_no_symbols(c) ==
    get_general_category(c) \in
        {"OtherPunctuation", "OpenPunctuation", "ClosePunctuation",
         "InitialPunctuation", "FinalPunctuation", "ConnectorPunctuation",
         "DashPunctuation"}

char_is_punctuation(c) ==
    get_general_category(c) \in
        {"OtherPunctuation", "OpenPunctuation", "ClosePunctuation",
         "InitialPunctuation", "FinalPunctuation", "ConnectorPunctuation",
         "DashPunctuation", "MathSymbol", "CurrencySymbol", "ModifierSymbol"}

\* Variant: every connector punctuation character is word-forming.
char_is_word_connector(c) ==
    is_alphanumeric(c) \/ get_general_category(c) = "ConnectorPunctuation"

char_is_word(c) == is_alphanumeric(c) \/ c = \H005F

\* Variant: the word step comes first.
categorize_char_word_first(c) ==
    IF char_is_word(c) THEN "Word"
    ELSE IF char_is_hiragana(c) THEN "Hiragana"
    ELSE IF char_is_katakana(c) THEN "Katakana"
    ELSE IF char_is_kanji(c) THEN "Kanji"
    ELSE IF char_is_line_ending(c) THEN "Eol"
    ELSE IF is_whitespace(c) THEN "Whitespace"
    ELSE IF char_is_punctuation(c) THEN "Punctuation"
    ELSE "Unknown"

\* Variant: generic whitespace is tested before the line ending.
categorize_char_whitespace_first(c) ==
    IF char_is_hiragana(c) THEN "Hiragana"
    ELSE IF char_is_katakana(c) THEN "Katakana"
    ELSE IF char_is_kanji(c) THEN "Kanji"
    ELSE IF is_whitespace(c) THEN "Whitespace"
    ELSE IF char_is_line_ending(c) THEN "Eol"
    ELSE IF char_is_word(c) THEN "Word"
    ELSE IF char_is_punctuation(c) THEN "Punctuation"
    ELSE "Unknown"

\* Variant: step 5 calls the narrow char_is_whitespace.
categorize_char_narrow_whitespace(c) ==
    IF char_is_hiragana(c) THEN "Hiragana"
    ELSE IF char_is_katakana(c) THEN "Katakana"
    ELSE IF char_is_kanji(c) THEN "Kanji"
    ELSE IF char_is_line_ending(c) THEN "Eol"
    ELSE IF char_is_whitespace(c) THEN "Whitespace"
    ELSE IF char_is_word(c) THEN "Word"
    ELSE IF char_is_punctuation(c) THEN "Punctuation"
    ELSE "Unknown"

categorize_char(c) ==
    IF char_is_hiragana(c) THEN "Hiragana"
    ELSE IF char_is_katakana(c) THEN "Katakana"
    ELSE IF char_is_kanji(c) THEN "Kanji"
    ELSE IF char_is_line_ending(c) THEN "Eol"
    ELSE IF is_whitespace(c) THEN "Whitespace"
    ELSE IF char_is_word(c) THEN "Word"
    ELSE IF char_is_punctuation(c) THEN "Punctuation"
    ELSE "Unknown"

(***************************************************************************)
(* Inputs.  Every predicate above is constant between two neighbouring     *)
(* table boundaries, so the inputs are the boundaries of every table and   *)
(* the scalar values up to Spread away from them, plus the characters of   *)
(* test_categorize.                                                        *)
(***************************************************************************)

Bounds(T) == UNION {{T[i][1], T[i][2]} : i \in DOMAIN T}

\* char: 0..=0x10FFFF without the surrogates 0xD800..=0xDFFF
IsScalar(c) == 0 <= c /\ c <= \H10FFFF /\ ~(\HD800 <= c /\ c <= \HDFFF)

EOL_TEST_CASE == <<\H000A, \H000B, \H000C, \H0085, \H2028, \H2029>>

WORD_TEST_CASE ==
    <<\H005F, \H0068, \H0065, \H006C, \H006C, \H006F, \H005F, \H0077, \H006F,
      \H0072, \H006C, \H0064, \H005F,
      \H3042, \H3044, \H3046, \H3048, \H304A, \H30FC,
      \H0031, \H0032, \H0033, \H0034, \H0035, \H0036, \H0037, \H0038, \H0039,
      \H0030,
      \HFF11, \HFF12, \HFF13, \HFF14, \HFF15, \HFF16, \HFF17, \HFF18, \HFF19,
      \HFF10>>

PUNCTUATION_TEST_CASE ==
    <<\H0021, \H0022, \H0023, \H0024, \H0025, \H0026, \H0027, \H0028, \H0029,
      \H002A, \H002B, \H002C, \H002D, \H002E, \H002F, \H003A, \H003B, \H003C,
      \H003D, \H003E, \H003F, \H0040, \H005B, \H005C, \H005D, \H005E, \H0060,
      \H007B, \H007C, \H007D, \H007E,
      \HFF01, \H201D, \HFF03, \HFF04, \HFF05, \HFF06, \H2019, \HFF08, \HFF09,
      \HFF0A, \HFF0B, \H3001, \H3002, \HFF1A, \HFF1B, \HFF1C, \HFF1D, \HFF1E,
      \HFF1F, \HFF20, \H300C, \H300D, \HFF3E, \HFF40, \HFF5B, \HFF5C, \HFF5D,
      \HFF5E>>

WHITESPACE_TEST_CASE == <<\H1680, \H0020, \H3000, \H202F, \H2009, \H2008>>

Elems(s) == {s[i] : i \in DOMAIN s}

Boundaries ==
    Bounds(HiraganaRanges) \cup Bounds(KatakanaRanges) \cup Bounds(KanjiRanges)
    \cup Bounds(White_SpaceRanges) \cup Bounds(AlphabeticRanges)
    \cup Bounds(NumericRanges)
    \cup Bounds(OtherPunctuationRanges) \cup Bounds(OpenPunctuationRanges)
    \cup Bounds(ClosePunctuationRanges) \cup Bounds(InitialPunctuationRanges)
    \cup Bounds(FinalPunctuationRanges) \cup Bounds(ConnectorPunctuationRanges)
    \cup Bounds(DashPunctuationRanges) \cup Bounds(MathSymbolRanges)
    \cup Bounds(CurrencySymbolRanges) \cup Bounds(ModifierSymbolRanges)
    \cup {\H0009, \H0020, \H00A0, \H180E, \H202F, \H205F, \H3000, \HFEFF,
          \H2000, \H200B}
    \cup Elems(EOL_TEST_CASE)
    \cup {0, \HD7FF, \HE000, \H10FFFF}

Chars ==
    {c \in UNION {{b + d : d \in (0 - Spread)..Spread} : b \in Boundaries} :
        IsScalar(c)}
    \cup Elems(WORD_TEST_CASE) \cup Elems(PUNCTUATION_TEST_CASE)
    \cup Elems(WHITESPACE_TEST_CASE)

(***************************************************************************)
(* The harness.                                                            *)
(***************************************************************************)

Init ==
    /\ ch \in Chars
    /\ unicode_lines \in BOOLEAN
    /\ called = "none"
    /\ category = "none"
    /\ narrow = FALSE

\* let category = categorize_char(ch);
Categorize ==
    /\ called = "none"
    /\ called' = "categorize_char"
    /\ category' = categorize_char(ch)
    /\ UNCHANGED <<ch, unicode_lines, narrow>>

\* let narrow = char_is_whitespace(ch);
NarrowWhitespace ==
    /\ called = "none"
    /\ called' = "char_is_whitespace"
    /\ narrow' = char_is_whitespace(ch)
    /\ UNCHANGED <<ch, unicode_lines, category>>

Next == Categorize \/ NarrowWhitespace

Spec == Init /\ [][Next]_vars

TypeOK ==
    /\ IsScalar(ch)
    /\ unicode_lines \in BOOLEAN
    /\ called \in {"none", "categorize_char", "char_is_whitespace"}
    /\ category \in CharCategory \cup {"none"}
    /\ narrow \in BOOLEAN

(***************************************************************************)
(* Properties.                                                             *)
(***************************************************************************)

Categorized == called = "categorize_char"

\* The seven predicates of categorize_char on the input, in dispatch order,
\* and the category each stands for.
Holds ==
    <<char_is_hiragana(ch), char_is_katakana(ch), char_is_kanji(ch),
      char_is_line_ending(ch), is_whitespace(ch), char_is_word(ch),
      char_is_punctuation(ch)>>

Order ==
    <<"Hiragana", "Katakana", "Kanji", "Eol", "Whitespace", "Word",
      "Punctuation">>

C3_LineEndingPrecedence ==
    (Categorized /\ from_char(ch) # "None") =>
        /\ category = "Eol"
        /\ is_whitespace(ch)
        /\ ch \in Elems(EOL_TEST_CASE)

\* The line separator has been categorized under the extended policy.
C3_Witness ==
    /\ Categorized
    /\ unicode_lines
    /\ ch = \H2028
    /\ is_whitespace(ch)
    /\ category = "Eol"

\* C4: every character that is alphanumeric or the underscore, and every
\* character of the test's word set (the kana U+3042, U+3044, U+3046,
\* U+3048, U+304A and U+30FC among them), is categorized as Word.
C4_WordCharsAreWord ==
    (Categorized /\ (char_is_word(ch) \/ ch \in Elems(WORD_TEST_CASE)))
        => category = "Word"

\* C5: a scalar value with the generic whitespace property that the
\* line-ending recognizer does not accept is categorized as Whitespace, and
\* so is every character of the test's whitespace set.
C5_WhitespaceIsWhitespace ==
    Categorized =>
        /\ (is_whitespace(ch) /\ ~char_is_line_ending(ch))
              => category = "Whitespace"
        /\ ch \in Elems(WHITESPACE_TEST_CASE) => category = "Whitespace"

\* The Ogham space mark, which char_is_whitespace leaves out, has been
\* categorized.
C5_Witness ==
    /\ Categorized
    /\ ch = \H1680
    /\ ~char_is_whitespace(ch)
    /\ category = "Whitespace"

\* C6: the underscore is categorized as Word although it satisfies the
\* punctuation predicate, and every other connector punctuation character
\* is categorized as Punctuation.
C6_UnderscoreOnly ==
    Categorized =>
        /\ ch = \H005F => (category = "Word" /\ char_is_punctuation(ch))
        /\ (get_general_category(ch) = "ConnectorPunctuation" /\ ch # \H005F)
              => category = "Punctuation"

\* The fullwidth low line has been categorized.
C6_Witness ==
    /\ Categorized
    /\ ch = \HFF3F
    /\ get_general_category(ch) = "ConnectorPunctuation"
    /\ category = "Punctuation"

\* C7: every math symbol and every currency symbol is categorized as
\* Punctuation, and so is every character of the test's punctuation set.
C7_SymbolsArePunctuation ==
    Categorized =>
        /\ get_general_category(ch) \in {"MathSymbol", "CurrencySymbol"}
              => category = "Punctuation"
        /\ ch \in Elems(PUNCTUATION_TEST_CASE) => category = "Punctuation"

\* The fullwidth tilde, a math symbol, has been categorized.
C7_Witness ==
    /\ Categorized
    /\ ch = \HFF5E
    /\ get_general_category(ch) = "MathSymbol"
    /\ category = "Punctuation"

NarrowCalled == called = "char_is_whitespace"

\* The scalar values char_is_whitespace accepts that lack the generic
\* whitespace property.
NarrowOnly == {\H180E, \H200B, \HFEFF}

\* C8 as stated: every scalar value for which char_is_whitespace returns
\* true has the generic whitespace property.
C8_NarrowWithinGeneric ==
    (NarrowCalled /\ narrow) => is_whitespace(ch)

\* C8, amended: a scalar value for which char_is_whitespace returns true
\* has the generic whitespace property unless it is U+180E, U+200B or
\* U+FEFF; these three are accepted by char_is_whitespace and lack it.
C8_NarrowWithinGenericExcept ==
    NarrowCalled =>
        /\ narrow => (is_whitespace(ch) <=> ch \notin NarrowOnly)
        /\ ch \in NarrowOnly => narrow

\* char_is_whitespace has accepted the Mongolian vowel separator, which
\* lacks the generic whitespace property.
C8_Witness ==
    /\ NarrowCalled
    /\ narrow
    /\ ch = \H180E
    /\ ~is_whitespace(ch)

ScriptTables == {HiraganaRanges, KatakanaRanges, KanjiRanges}

\* C9 as stated: in each script table, in the order written, every range
\* has low <= high and starts strictly above the end of the range before.
\* It is stated of the range that holds the categorized scalar value; the
\* inputs reach every range of every table.
C9_TablesSortedAscending ==
    Categorized =>
        \A T \in ScriptTables :
            \A i \in DOMAIN T :
                contains(T[i], ch) =>
                    /\ T[i][1] <= T[i][2]
                    /\ i > 1 => T[i][1] > T[i - 1][2]

\* C9, amended: in each script table every range has low <= high and no
\* two ranges overlap, so a categorized scalar value lies in at most one
\* range of a table (the ranges are not listed in ascending order).
C9_TablesDisjoint ==
    \A T \in ScriptTables :
        /\ \A i \in DOMAIN T : T[i][1] <= T[i][2]
        /\ \A i, j \in DOMAIN T :
              i # j => (T[i][2] < T[j][1] \/ T[j][2] < T[i][1])
        /\ Categorized =>
              Cardinality({i \in DOMAIN T : contains(T[i], ch)}) <= 1

\* A kanji has been categorized by a range that is listed after a range
\* of higher scalar values.
C9_Witness ==
    /\ Categorized
    /\ category = "Kanji"
    /\ \E i \in 2..Len(KanjiRanges) :
          /\ contains(KanjiRanges[i], ch)
          /\ KanjiRanges[i][2] < KanjiRanges[i - 1][1]

ScriptPred(s, c) ==
    CASE s = "Hiragana" -> char_is_hiragana(c)
      [] s = "Katakana" -> char_is_katakana(c)
      [] s = "Kanji" -> char_is_kanji(c)

\* The six orders in which steps 1 to 3 can be evaluated.
ScriptOrders ==
    {o \in [1..3 -> {"Hiragana", "Katakana", "Kanji"}] :
        \A i, j \in 1..3 : i # j => o[i] # o[j]}

\* Steps 4 to 8 of categorize_char.
categorize_rest(c) ==
    IF char_is_line_ending(c) THEN "Eol"
    ELSE IF is_whitespace(c) THEN "Whitespace"
    ELSE IF char_is_word(c) THEN "Word"
    ELSE IF char_is_punctuation(c) THEN "Punctuation"
    ELSE "Unknown"

\* categorize_char with its first three steps evaluated in order o, where
\* rest is what steps 4 to 8 give.
categorize_reordered(c, o, rest) ==
    IF ScriptPred(o[1], c) THEN o[1]
    ELSE IF ScriptPred(o[2], c) THEN o[2]
    ELSE IF ScriptPred(o[3], c) THEN o[3]
    ELSE rest

\* C10: no scalar value satisfies more than one of char_is_hiragana,
\* char_is_katakana and char_is_kanji, so categorize_char returns what it
\* would return with steps 1 to 3 evaluated in any other order.
C10_ScriptsDisjoint ==
    Categorized =>
        /\ Cardinality({s \in {"Hiragana", "Katakana", "Kanji"} :
                            ScriptPred(s, ch)}) <= 1
        /\ LET rest == categorize_rest(ch)
           IN  \A o \in ScriptOrders :
                   category = categorize_reordered(ch, o, rest)

\* The first katakana scalar value, next to the last hiragana one, has been
\* categorized.
C10_Witness ==
    /\ Categorized
    /\ ch = \H30A0
    /\ ~char_is_hiragana(ch)
    /\ char_is_hiragana(ch - 1)
    /\ category = "Katakana"

====
